---- MODULE Spec2Model ----
(***************************************************************************)
(* Model of src/main.py: the retrying HTTP helper make_api_request and the *)
(* two button handlers of main() that call it (Retrieval and Apply         *)
(* Configuration).  One Streamlit script run is one pass through main();   *)
(* a run is split only at the points where the script blocks: a network    *)
(* attempt (whose outcome the backend chooses) and time.sleep.             *)
(***************************************************************************)
EXTENDS Integers, Sequences, FiniteSets, TLC

VARIABLES
    pc,              \* position of the script: idle / attempt / sleep / returned / raised
    action,          \* the button and query of the current (or last) script run
    call,            \* arguments of the running make_api_request invocation
    attempt,         \* the loop variable of make_api_request
    sent,            \* requests put on the wire by the current invocation
    netlog,          \* requests of the current script run, each with its outcome
    pauses,          \* durations of the time.sleep calls of the current invocation
    outcomes,        \* "ok" or "fail", one per attempt of the current invocation
    caught,          \* exception classes caught by the current invocation
    resp,            \* backend's answer to the latest attempt
    result,          \* how the current invocation ended
    done,            \* invocations completed in the current script run
    prev,            \* how the invocation before the current one ended
    messages,        \* st.error / st.warning / st.success of the current script run
    search_results   \* st.session_state.search_results

vars == <<pc, action, call, attempt, sent, netlog, pauses, outcomes, caught, resp,
          result, done, prev, messages, search_results>>

-----------------------------------------------------------------------------
(* Constants of the program *)

BASE_URL == "http://localhost:8000"
MAX_RETRIES == 10
RETRY_DELAY == 1

(* Python's None and a reference to an object *)
None == <<>>
Some(x) == <<x>>

-----------------------------------------------------------------------------
(* Inputs: what the user can enter and what the backend can answer *)

Queries == {"", "what is a vector"}

\* doc_correlation is in hundredths (85 is 0.85)
DocCorrelations == {85, 95}
RecallNumbers == {10, 50}
RetrievalWeights == {"Mixed", "Semantic", "Keyword"}
MixedPercentages == {50, 100}
RerankChoices == {"Enable", "Disable"}

Widgets == [doc_correlation : DocCorrelations,
            recall_number : RecallNumbers,
            retrieval_weight : RetrievalWeights,
            mixed_percentage : MixedPercentages,
            rerank_model : RerankChoices]

Statuses == {200, 300, 404, 500}
Bodies == {"<html>", "{}", "{results: [r1]}"}

\* no connection at all, or an HTTP response with a status and a body
Responses == {[connected |-> FALSE, status |-> 0, body |-> ""]}
                \cup [connected : {TRUE}, status : Statuses, body : Bodies]

NoResponse == [connected |-> FALSE, status |-> -1, body |-> ""]

-----------------------------------------------------------------------------
(* The requests library, as make_api_request uses it *)

\* a raise_for_status that lets client errors through
raise_for_status_5xx(status) == 500 <= status /\ status < 600

\* Response.raise_for_status(): HTTPError for a 4xx or 5xx status only
raise_for_status(status) == 400 <= status /\ status < 600

\* Response.json(): the body parses as JSON or JSONDecodeError is raised
Decodable(body) == body # "<html>"

json(body) ==
    CASE body = "{}" -> [has_results |-> FALSE, results |-> <<>>]
      [] body = "{results: [r1]}" -> [has_results |-> TRUE, results |-> <<"r1">>]
      [] OTHER -> [has_results |-> FALSE, results |-> <<>>]

\* the exception one attempt raises inside the try block, "none" if it returns
Exception(r) ==
    IF ~r.connected THEN "ConnectionError"
    ELSE IF raise_for_status(r.status) THEN "HTTPError"
    ELSE IF ~Decodable(r.body) THEN "JSONDecodeError"
    ELSE "none"

\* requests.exceptions.RequestException and the subclasses met here
\* (requests.exceptions.JSONDecodeError derives from it since requests 2.27)
RequestException == {"ConnectionError", "HTTPError", "JSONDecodeError"}

\* the query string requests builds from params: a key whose value is None
\* is left out
EncodeParams(params) ==
    IF params = None THEN [k \in {} |-> None]
    ELSE LET d == params[1]
         IN  [k \in {x \in DOMAIN d : d[x] # None} |-> d[k][1]]

\* a request whose JSON body is lost on the retries
RequestDropsBodyOnRetry(c) ==
    [method |-> c.method, url |-> BASE_URL \o c.endpoint,
     json |-> IF attempt = 0 THEN c.data ELSE None,
     params |-> EncodeParams(c.params)]

\* the request one attempt puts on the wire
Request(c) ==
    IF c.method = "GET"
    THEN [method |-> "GET", url |-> BASE_URL \o c.endpoint,
          json |-> None, params |-> EncodeParams(c.params)]
    ELSE [method |-> "POST", url |-> BASE_URL \o c.endpoint,
          json |-> c.data, params |-> EncodeParams(c.params)]

-----------------------------------------------------------------------------
(* config_section: the dict built from the widgets *)

\* a config_section that returns the slider's value whatever the weight is
config_section_always_mixed(w) ==
    [doc_correlation |-> Some(w.doc_correlation),
     recall_number |-> Some(w.recall_number),
     retrieval_weight |-> Some(w.retrieval_weight),
     mixed_percentage |-> Some(w.mixed_percentage),
     rerank_enabled |-> Some(~(w.rerank_model = "Disable"))]

\* lines 130-136; rerank_enabled is not (radio == "Disable")
config_section(w) ==
    [doc_correlation |-> Some(w.doc_correlation),
     recall_number |-> Some(w.recall_number),
     retrieval_weight |-> Some(w.retrieval_weight),
     mixed_percentage |-> IF w.retrieval_weight = "Mixed"
                          THEN Some(w.mixed_percentage) ELSE None,
     rerank_enabled |-> Some(~(w.rerank_model = "Disable"))]

-----------------------------------------------------------------------------
(* make_api_request *)

NoCall == [endpoint |-> "", method |-> "", data |-> None, params |-> None]
Pending == [kind |-> "pending", value |-> None, exc |-> "none"]

\* how the invocation whose state is still in the variables ended
Finished ==
    IF result.kind = "pending" THEN prev
    ELSE IF result.kind = "raised" THEN "exhausted"
    ELSE IF Len(sent) = 1 THEN "success"
    ELSE "recovered"

\* an attempt counter that outlives the invocation
StartCallKeepsCounter(endpoint, method, data, params) ==
    /\ call' = [endpoint |-> endpoint, method |-> method,
                data |-> data, params |-> params]
    /\ attempt' = attempt
    /\ sent' = <<>>
    /\ pauses' = <<>>
    /\ outcomes' = <<>>
    /\ caught' = {}
    /\ resp' = NoResponse
    /\ result' = Pending
    /\ prev' = Finished
    /\ pc' = "attempt"

\* lines 12-14: a new frame of make_api_request; the for loop starts at the
\* first value of range(MAX_RETRIES)
StartCall(endpoint, method, data, params) ==
    /\ call' = [endpoint |-> endpoint, method |-> method,
                data |-> data, params |-> params]
    /\ attempt' = 0
    /\ sent' = <<>>
    /\ pauses' = <<>>
    /\ outcomes' = <<>>
    /\ caught' = {}
    /\ resp' = NoResponse
    /\ result' = Pending
    /\ prev' = Finished
    /\ pc' = "attempt"

\* a test that gives up one attempt early
IsLastAttemptEarly(a) == a = MAX_RETRIES - 2

\* line 25
IsLastAttempt(a) == a = MAX_RETRIES - 1

\* the for statement takes its next value; when range(MAX_RETRIES) has none
\* left the function ends and returns None
NextIteration ==
    IF attempt + 1 < MAX_RETRIES
    THEN /\ attempt' = attempt + 1
         /\ pc' = "attempt"
         /\ UNCHANGED <<result, done>>
    ELSE /\ result' = [kind |-> "returned", value |-> None, exc |-> "none"]
         /\ done' = Append(done, [endpoint |-> call.endpoint, kind |-> "returned"])
         /\ pc' = "returned"
         /\ UNCHANGED attempt

\* a try block that decodes the body but goes on to the next iteration
TryWithoutReturn(r) ==
    /\ NextIteration
    /\ UNCHANGED <<caught, messages>>

\* lines 15-22: the request went through, the status is no error and the
\* body decodes: return response.json()
Try(r) ==
    /\ result' = [kind |-> "returned", value |-> Some(json(r.body)), exc |-> "none"]
    /\ done' = Append(done, [endpoint |-> call.endpoint, kind |-> "returned"])
    /\ pc' = "returned"
    /\ UNCHANGED <<attempt, caught, messages>>

\* an except block that reports the last failure and does not raise
ExceptWithoutRaise(e) ==
    /\ caught' = caught \cup {e}
    /\ pc' = "sleep"
    /\ IF IsLastAttempt(attempt)
       THEN messages' = Append(messages, [kind |-> "error",
                                          attempts |-> MAX_RETRIES, exc |-> e])
       ELSE UNCHANGED messages
    /\ UNCHANGED <<attempt, result, done>>

\* lines 24-27: the except block up to the raise
Except(e) ==
    /\ caught' = caught \cup {e}
    /\ IF IsLastAttempt(attempt)
       THEN /\ messages' = Append(messages, [kind |-> "error",
                                             attempts |-> MAX_RETRIES, exc |-> e])
            /\ result' = [kind |-> "raised", value |-> None, exc |-> e]
            /\ done' = Append(done, [endpoint |-> call.endpoint, kind |-> "raised"])
            /\ pc' = "raised"
       ELSE /\ pc' = "sleep"
            /\ UNCHANGED <<messages, result, done>>
    /\ UNCHANGED attempt

\* an exception the except clause does not name leaves the function at once
Uncaught(e) ==
    /\ result' = [kind |-> "raised", value |-> None, exc |-> e]
    /\ done' = Append(done, [endpoint |-> call.endpoint, kind |-> "raised"])
    /\ pc' = "raised"
    /\ UNCHANGED <<attempt, caught, messages>>

\* lines 15-24: one pass through the try statement: the request is sent and
\* the backend answers
Attempt ==
    /\ pc = "attempt"
    /\ \E r \in Responses :
        LET e == Exception(r)
            o == IF e = "none" THEN "ok" ELSE "fail"
        IN  /\ sent' = Append(sent, Request(call))
            /\ netlog' = Append(netlog, [request |-> Request(call), outcome |-> o])
            /\ outcomes' = Append(outcomes, o)
            /\ resp' = r
            /\ IF e = "none" THEN Try(r)
               ELSE IF e \in RequestException THEN Except(e)
               ELSE Uncaught(e)
    /\ UNCHANGED <<action, call, pauses, prev, search_results>>

\* a pause that grows with the attempt number
SleepWithBackoff ==
    /\ pc = "sleep"
    /\ pauses' = Append(pauses, RETRY_DELAY * (attempt + 1))
    /\ NextIteration
    /\ UNCHANGED <<action, call, sent, netlog, outcomes, caught, resp, prev,
                   messages, search_results>>

\* lines 28-29: time.sleep(RETRY_DELAY); continue
Sleep ==
    /\ pc = "sleep"
    /\ pauses' = Append(pauses, RETRY_DELAY)
    /\ NextIteration
    /\ UNCHANGED <<action, call, sent, netlog, outcomes, caught, resp, prev,
                   messages, search_results>>

-----------------------------------------------------------------------------
(* main *)

\* a script run in which make_api_request is not called
NoInvocation ==
    /\ prev' = Finished
    /\ call' = NoCall
    /\ attempt' = 0
    /\ sent' = <<>>
    /\ pauses' = <<>>
    /\ outcomes' = <<>>
    /\ caught' = {}
    /\ resp' = NoResponse
    /\ result' = Pending
    /\ pc' = "idle"

\* lines 152-159: the Retrieval button; an empty query skips the block
ClickRetrieval ==
    /\ pc = "idle"
    /\ \E q \in Queries :
        /\ action' = [button |-> "Retrieval", query |-> q]
        /\ IF q # ""
           THEN StartCall("/query/submit", "POST", Some([query |-> q]), None)
           ELSE NoInvocation
    /\ netlog' = <<>>
    /\ done' = <<>>
    /\ messages' = <<>>
    /\ UNCHANGED search_results

\* lines 170-178: the Apply Configuration button
ClickApply ==
    /\ pc = "idle"
    /\ \E w \in Widgets :
        StartCall("/vector-search/configure", "POST", None, Some(config_section(w)))
    /\ action' = [button |-> "Apply Configuration", query |-> ""]
    /\ netlog' = <<>>
    /\ done' = <<>>
    /\ messages' = <<>>
    /\ UNCHANGED search_results

\* lines 162-167 and 179: main goes on after make_api_request returned
Continue ==
    /\ pc = "returned"
    /\ CASE call.endpoint = "/query/submit" ->
              /\ StartCall("/query/retrieve", "POST", None, None)
              /\ UNCHANGED <<messages, search_results>>
         [] call.endpoint = "/query/retrieve" ->
              \* results.get on None is an AttributeError, which leaves main
              /\ IF result.value = None
                 THEN /\ pc' = "raised"
                      /\ UNCHANGED <<messages, search_results>>
                 ELSE /\ pc' = "idle"
                      /\ IF /\ result.value[1].has_results
                            /\ result.value[1].results # <<>>
                         THEN /\ search_results' = Some(result.value[1].results)
                              /\ UNCHANGED messages
                         ELSE /\ messages' = Append(messages,
                                     [kind |-> "warning", attempts |-> 0, exc |-> "none"])
                              /\ UNCHANGED search_results
              /\ UNCHANGED <<call, attempt, sent, pauses, outcomes, caught, resp,
                             result, prev>>
         [] OTHER ->
              /\ messages' = Append(messages,
                     [kind |-> "success", attempts |-> 0, exc |-> "none"])
              /\ pc' = "idle"
              /\ UNCHANGED <<call, attempt, sent, pauses, outcomes, caught, resp,
                             result, prev, search_results>>
    /\ UNCHANGED <<action, netlog, done>>

\* line 27: the exception leaves make_api_request and main; the script run ends
Propagate ==
    /\ pc = "raised"
    /\ pc' = "idle"
    /\ UNCHANGED <<action, call, attempt, sent, netlog, pauses, outcomes, caught,
                   resp, result, done, prev, messages, search_results>>

-----------------------------------------------------------------------------

Init ==
    /\ pc = "idle"
    /\ action = [button |-> "none", query |-> ""]
    /\ call = NoCall
    /\ attempt = 0
    /\ sent = <<>>
    /\ netlog = <<>>
    /\ pauses = <<>>
    /\ outcomes = <<>>
    /\ caught = {}
    /\ resp = NoResponse
    /\ result = Pending
    /\ done = <<>>
    /\ prev = "none"
    /\ messages = <<>>
    /\ search_results = None

Next ==
    \/ ClickRetrieval
    \/ ClickApply
    \/ Attempt
    \/ Sleep
    \/ Continue
    \/ Propagate

Spec == Init /\ [][Next]_vars

-----------------------------------------------------------------------------
(* Vocabulary of the properties *)

Ended == result.kind # "pending"

\* the backend has failed on every attempt of the invocation so far
AllFailed == \A i \in 1..Len(outcomes) : outcomes[i] = "fail"

IsError(m) == m.kind = "error"
Errors == Len(SelectSeq(messages, IsError))

IsThisCall(d) == d.endpoint = call.endpoint
Completions == Len(SelectSeq(done, IsThisCall))

SubmitUrl == BASE_URL \o "/query/submit"
RetrieveUrl == BASE_URL \o "/query/retrieve"
ConfigureCall == call.endpoint = "/vector-search/configure"

\* the state right after an attempt
AfterAttempt == Len(sent) > 0 /\ pc \in {"sleep", "returned", "raised"}

TransportError(r) == ~r.connected
HttpErrorStatus(r) == r.connected /\ 400 <= r.status /\ r.status <= 599
Non2xxStatus(r) == r.connected /\ ~(200 <= r.status /\ r.status <= 299)
DecodeError(r) == r.connected /\ ~Decodable(r.body)

\* the failed attempt used up one attempt and is followed by the pause before
\* the retry, or, when it was the MAX_RETRIES-th, by exhaustion
RetriedOrExhausted ==
    /\ outcomes[Len(outcomes)] = "fail"
    /\ Len(sent) = attempt + 1
    /\ IF Len(sent) < MAX_RETRIES
       THEN pc = "sleep" /\ ~Ended
       ELSE pc = "raised" /\ result.kind = "raised"

NoRetrieveSent == \A i \in 1..Len(netlog) : netlog[i].request.url # RetrieveUrl

-----------------------------------------------------------------------------
(* The properties *)

\* C1: a call of make_api_request whose every attempt failed does not raise to
\* its caller: it ends by returning a failure sentinel as data.
C1_ReturnsSentinel ==
    (Ended /\ AllFailed) => (result.kind = "returned" /\ result.value = None)

\* C2: against a backend that fails on every attempt a call makes exactly
\* MAX_RETRIES attempts, neither fewer nor more, and then ends with the
\* reported terminal failure; no call ever makes more than MAX_RETRIES attempts.
C2_ExactlyMaxRetries ==
    /\ Len(sent) <= MAX_RETRIES
    /\ Len(outcomes) = Len(sent)
    /\ (AllFailed /\ Len(sent) < MAX_RETRIES) => ~Ended
    /\ (AllFailed /\ Len(sent) = MAX_RETRIES) => Ended
    /\ (Ended /\ AllFailed) =>
          /\ Len(sent) = MAX_RETRIES
          /\ result.kind = "raised"
          /\ Errors = 1

C2_Exhausted ==
    result.kind = "raised" /\ AllFailed /\ Len(sent) = MAX_RETRIES

\* C3: when the backend fails k times (0 <= k < MAX_RETRIES) and then answers,
\* the call has made exactly k+1 attempts, returns the decoded body of attempt
\* k+1 and sends nothing after it.
C3_RecoveryStopsAtSuccess ==
    \A i \in 1..Len(outcomes) :
        outcomes[i] = "ok" =>
            /\ i = Len(outcomes)
            /\ i = Len(sent)
            /\ i <= MAX_RETRIES
            /\ \A j \in 1..(i - 1) : outcomes[j] = "fail"
            /\ pc \in {"returned", "idle"}
            /\ result.kind = "returned"
            /\ result.value = Some(json(resp.body))

C3_RecoveredAtLastAttempt ==
    /\ result.kind = "returned"
    /\ Len(sent) = MAX_RETRIES
    /\ outcomes[MAX_RETRIES] = "ok"
    /\ result.value # None
    /\ result.value[1].has_results

\* C4 as stated: a transport error, a non-2xx status of any code and an
\* undecodable body are each retried while attempts remain and end the call
\* only at the MAX_RETRIES-th attempt.
C4_AnyNon2xxRetried ==
    (AfterAttempt /\ (TransportError(resp) \/ Non2xxStatus(resp) \/ DecodeError(resp)))
        => RetriedOrExhausted

\* C4 amended: a transport error, a 4xx or 5xx status and an undecodable body
\* are each retried while attempts remain and end the call only at the
\* MAX_RETRIES-th attempt, in any mix; exhaustion comes after exactly
\* MAX_RETRIES failures.
C4_ErrorKindsRetriedAlike ==
    /\ (AfterAttempt
          /\ (TransportError(resp) \/ HttpErrorStatus(resp) \/ DecodeError(resp)))
        => RetriedOrExhausted
    /\ result.kind = "raised" =>
          /\ Len(sent) = MAX_RETRIES
          /\ AllFailed
          /\ caught \subseteq RequestException

C4_MixedExhaustion ==
    /\ result.kind = "raised"
    /\ caught = {"ConnectionError", "HTTPError", "JSONDecodeError"}
    /\ Len(sent) = MAX_RETRIES

\* C5: an invocation ends exactly once, either with a payload and no reported
\* failure or with one reported terminal failure and no payload; it has no
\* result while it runs and always has one when control leaves it.
C5_ExactlyOneResult ==
    /\ pc \in {"returned", "raised"} => Ended
    /\ ~Ended => (Completions = 0 /\ Errors = 0)
    /\ Ended =>
          /\ Completions = 1
          /\ \/ /\ result.kind = "returned"
                /\ result.value # None
                /\ result.exc = "none"
                /\ Errors = 0
             \/ /\ result.kind = "raised"
                /\ result.value = None
                /\ result.exc \in RequestException
                /\ Errors = 1

C5_FailureAfterSuccess ==
    /\ call.endpoint = "/query/retrieve"
    /\ result.kind = "raised"
    /\ Len(done) = 2
    /\ done[1].kind = "returned"

\* C6: whatever the earlier invocation did (first-try success, success after
\* failures, exhaustion), the next one starts with its counter at 0 and is
\* exhausted only after MAX_RETRIES attempts of its own.
C6_CounterIsPerCall ==
    prev \in {"success", "recovered", "exhausted"} =>
        /\ (pc = "attempt" /\ sent = <<>>) => attempt = 0
        /\ pc = "attempt" => attempt = Len(sent)
        /\ pc = "sleep" => attempt + 1 = Len(sent)
        /\ result.kind = "raised" => Len(sent) = MAX_RETRIES

C6_ExhaustedTwice ==
    prev = "exhausted" /\ result.kind = "raised" /\ Len(sent) = MAX_RETRIES

\* C7: every attempt of one invocation carries the method, URL, JSON body and
\* query parameters of the first attempt, which are those the caller passed.
C7_SameRequestEveryAttempt ==
    \A i \in 1..Len(sent) :
        /\ sent[i].method = sent[1].method
        /\ sent[i].url = sent[1].url
        /\ sent[i].json = sent[1].json
        /\ sent[i].params = sent[1].params
        /\ sent[1].method = call.method
        /\ sent[1].url = BASE_URL \o call.endpoint
        /\ sent[1].json = call.data

C7_SubmitRetriedToTheEnd ==
    /\ call.endpoint = "/query/submit"
    /\ Len(sent) = MAX_RETRIES
    /\ sent[1].json # None
    /\ Cardinality(caught) = 3

C9_FixedPauseBetweenAttempts ==
    /\ \A i \in 1..Len(pauses) : pauses[i] = RETRY_DELAY
    /\ pc = "attempt" => Len(pauses) = Len(sent)
    /\ pc = "sleep" => Len(pauses) = Len(sent) - 1
    /\ Ended => Len(pauses) = Len(sent) - 1
    /\ result.kind = "raised" => Len(pauses) = MAX_RETRIES - 1

C9_ExhaustedAfterPauses ==
    result.kind = "raised" /\ Len(pauses) = MAX_RETRIES - 1 /\ Len(sent) = MAX_RETRIES

\* C10: in a script run, a request to /query/retrieve is sent only after a
\* /query/submit request of the same run, carrying the query, was answered
\* successfully; none is sent when the query is empty or the submit call ends
\* in exhaustion.
C10_RetrieveOnlyAfterSubmit ==
    /\ \A i \in 1..Len(netlog) :
          netlog[i].request.url = RetrieveUrl =>
              /\ action.button = "Retrieval"
              /\ action.query # ""
              /\ \E j \in 1..(i - 1) :
                    /\ netlog[j].request.url = SubmitUrl
                    /\ netlog[j].request.json = Some([query |-> action.query])
                    /\ netlog[j].outcome = "ok"
    /\ (action.button = "Retrieval" /\ action.query = "") => netlog = <<>>
    /\ (call.endpoint = "/query/submit" /\ result.kind = "raised") => NoRetrieveSent

C10_SubmitExhausted ==
    /\ pc = "idle"
    /\ action.button = "Retrieval"
    /\ call.endpoint = "/query/submit"
    /\ result.kind = "raised"
    /\ NoRetrieveSent
====
